---- MODULE Spec2Model ----
(***************************************************************************)
(* Progressive-growing schedule of DepthManager (src/plugins.py).          *)
(*                                                                         *)
(* The manager is built from a configuration; at construction it computes  *)
(* the boundary table alpha_map; calc_progress maps a sample count         *)
(* cur_nimg to a pair (depth, alpha).                                      *)
(*                                                                         *)
(* Numbers.  A kimg quantity (a constructor argument or an override, a     *)
(* Python int or float) is a rational <<n, d>> with d > 0; the model uses  *)
(* values that a binary float holds exactly, so that x * 1000 is exact and *)
(* int() is truncation toward zero.  alpha is the float quotient of two    *)
(* integers below 2^25: two such quotients are equal floats exactly when   *)
(* they are equal rationals and the quotient is 1.0 only when numerator    *)
(* and denominator are equal, so alpha is kept as a rational in lowest     *)
(* terms and 1.0 is <<1, 1>>.                                              *)
(***************************************************************************)
EXTENDS Integers, Sequences, FiniteSets, TLC

VARIABLES
    depth_offset,              \* self.depth_offset
    max_depth,                 \* self.max_depth
    disable_progression,       \* self.disable_progression
    lod_training_kimg,         \* constructor argument
    lod_transition_kimg,       \* constructor argument
    training_kimg_override,    \* class attribute, stage -> kimg
    transition_kimg_override,  \* class attribute, stage -> kimg
    alpha_map,                 \* self.alpha_map, the boundary table
    calls,                     \* the last two calc_progress calls, oldest first
    pc,                        \* where the program is
    generator,                 \* G: depth, alpha, max_depth
    discriminator,             \* D: depth, alpha, max_depth
    dataset,                   \* dataset: model_depth, alpha
    manager,                   \* the DepthManager: depth, alpha, reset_optimizer
    trainer,                   \* the Trainer: cur_nimg, optimizers, dataiter, ...
    factory,                   \* how often each factory has been called
    num_data_workers,          \* params['num_data_workers']
    batch,                     \* the batch the last training step consumed
    last,                      \* the last DepthManager callback that ran
    monitor,                   \* an EfficientLossMonitor
    plugin_io,                 \* the last SaverPlugin / OutputGenerator callback
    metrics,                   \* FidCalculator and NDBScore: their epochs and loops
    output_generator,          \* the OutputGenerator: my_g_clone, its epochs
    checkpoints,               \* the files of the checkpoints directory
    raised                     \* the exception that ended the run, "" if none

config == <<depth_offset, max_depth, disable_progression, lod_training_kimg,
            lod_transition_kimg, training_kimg_override, transition_kimg_override,
            alpha_map>>

\* The models, the dataset, the manager and the trainer.
training == <<pc, generator, discriminator, dataset, manager, trainer, factory,
              num_data_workers, batch, last>>

\* The plugins called at the end of a tick.
plugins == <<monitor, plugin_io, metrics, output_generator, checkpoints>>

vars == <<config, calls, training, plugins, raised>>

----------------------------------------------------------------------------
(* Bounds of the model. *)

MaxDepth == 3
MaxStages == 2
MonitorWarmup == 1
MonitorPatience == 2
MaxEpochs == 6
MaxOutputEpochs == 3
MaxTicks == 3
OutputSnapshotTicks == 2
MaxDepthOffset == 1
FarBeyond == 1000000

(* Program constants. *)

NimgPerKimg == 1000
ClassOverrideKimg == 200
ClassOverrideLastStage == 4
MonitorThreshold == 10

----------------------------------------------------------------------------
(* Arithmetic of Python ints and floats. *)

Abs(x) == IF x < 0 THEN -x ELSE x

RECURSIVE GCD(_, _)
GCD(a, b) == IF b = 0 THEN a ELSE GCD(b, a % b)

\* The float n / d for d # 0, as a rational in lowest terms with a positive
\* denominator.
Frac(n, d) ==
    LET g == GCD(Abs(n), Abs(d))
        s == IF d < 0 THEN -1 ELSE 1
    IN  <<(s * n) \div g, (s * d) \div g>>

One == <<1, 1>>

\* a < b for rationals with positive denominators, by their continued
\* fractions (no product that could leave the 32-bit integers of the checker).
RECURSIVE FracLess(_, _)
FracLess(a, b) ==
    LET qa == a[1] \div a[2]
        qb == b[1] \div b[2]
        ra == a[1] % a[2]
        rb == b[1] % b[2]
    IN  IF qa # qb THEN qa < qb
        ELSE IF rb = 0 THEN FALSE
        ELSE IF ra = 0 THEN TRUE
        ELSE FracLess(<<b[2], rb>>, <<a[2], ra>>)

\* int(x): truncation toward zero of the rational n / d, d > 0.
TruncDiv(n, d) == IF n >= 0 THEN n \div d ELSE -((-n) \div d)

\* Mutant: int(kimg) * 1000, the truncation taken before the scaling.
KimgToNimg_trunc_first(kimg) == TruncDiv(kimg[1], kimg[2]) * NimgPerKimg

\* int(kimg * 1000)
KimgToNimg(kimg) == TruncDiv(kimg[1] * NimgPerKimg, kimg[2])

\* dict.get(key, default)
Get(override, key, default) ==
    IF key \in DOMAIN override THEN override[key] ELSE default

----------------------------------------------------------------------------
(* DepthManager.pre_compute_alpha_map *)

RECURSIVE alpha_map_from(_, _, _, _, _, _, _)
alpha_map_from(i, max_d, pointer, tr, tr_over, tn, tn_over) ==
    IF i >= max_d THEN <<>>
    ELSE LET p1 == pointer + KimgToNimg(Get(tr_over, i + 1, tr))
             p2 == p1 + KimgToNimg(Get(tn_over, i + 1, tn))
         IN  <<p1, p2>> \o alpha_map_from(i + 1, max_d, p2, tr, tr_over, tn, tn_over)

\* Mutant: the overrides keyed by the stage i that is left, not by i + 1.
RECURSIVE alpha_map_by_current(_, _, _, _, _, _, _)
alpha_map_by_current(i, max_d, pointer, tr, tr_over, tn, tn_over) ==
    IF i >= max_d THEN <<>>
    ELSE LET p1 == pointer + KimgToNimg(Get(tr_over, i, tr))
             p2 == p1 + KimgToNimg(Get(tn_over, i, tn))
         IN  <<p1, p2>> \o alpha_map_by_current(i + 1, max_d, p2, tr, tr_over, tn, tn_over)

pre_compute_alpha_map_by_current(start_depth, max_d, tr, tr_over, tn, tn_over) ==
    alpha_map_by_current(start_depth, max_d, 0, tr, tr_over, tn, tn_over)

pre_compute_alpha_map(start_depth, max_d, tr, tr_over, tn, tn_over) ==
    alpha_map_from(start_depth, max_d, 0, tr, tr_over, tn, tn_over)

----------------------------------------------------------------------------
(* DepthManager.calc_progress *)

\* Mutant: the exact-equality break left out.
StopsAtBoundary_never(cur, point) == FALSE

\* `if cur_nimg == point: break`
StopsAtBoundary(cur, point) == cur = point

\* Mutant: the depth incremented at every even index reached, whatever the
\* side of the boundary cur_nimg is on.
CrossesTrainingEnd_unguarded(cur, point, i) == i % 2 = 0

\* Mutant: the depth incremented past the odd indices, the ends of the
\* transitions, instead of the even ones.
CrossesTrainingEnd_at_odd_index(cur, point, i) == cur > point /\ i % 2 = 1

\* `if cur_nimg > point and i % 2 == 0: depth += 1`  (i is the 0-based index)
CrossesTrainingEnd(cur, point, i) == cur > point /\ i % 2 = 0

\* Mutant: the fade measured from the end of the transition, 1 - alpha.
FadeIn_reversed(cur, before, point) ==
    IF point - before = 0
    THEN [raised |-> "ZeroDivisionError", alpha |-> One]
    ELSE [raised |-> "", alpha |-> Frac(point - cur, point - before)]

\* `alpha = (cur_nimg - self.alpha_map[i - 1]) / (point - self.alpha_map[i - 1])`
\* A zero divisor raises ZeroDivisionError.
FadeIn(cur, before, point) ==
    IF point - before = 0
    THEN [raised |-> "ZeroDivisionError", alpha |-> One]
    ELSE [raised |-> "", alpha |-> Frac(cur - before, point - before)]

\* Mutant: the loop without its last statement, `if cur_nimg < point: break`.
RECURSIVE scan_no_final_break(_, _, _, _)
scan_no_final_break(cur, k, depth, alpha) ==
    IF k > Len(alpha_map) THEN [raised |-> "", depth |-> depth, alpha |-> alpha]
    ELSE LET point == alpha_map[k]
             i == k - 1
         IN  IF StopsAtBoundary(cur, point)
             THEN [raised |-> "", depth |-> depth, alpha |-> alpha]
             ELSE LET d == IF CrossesTrainingEnd(cur, point, i) THEN depth + 1 ELSE depth
                  IN  IF cur < point /\ i % 2 = 1
                      THEN LET f == FadeIn(cur, alpha_map[k - 1], point)
                           IN  [raised |-> f.raised, depth |-> d, alpha |-> f.alpha]
                      ELSE scan_no_final_break(cur, k + 1, d, alpha)

\* The loop over enumerate(self.alpha_map), from the 1-based position k, with
\* the depth and alpha accumulated so far.
RECURSIVE scan(_, _, _, _)
scan(cur, k, depth, alpha) ==
    IF k > Len(alpha_map) THEN [raised |-> "", depth |-> depth, alpha |-> alpha]
    ELSE LET point == alpha_map[k]
             i == k - 1
         IN  IF StopsAtBoundary(cur, point)
             THEN [raised |-> "", depth |-> depth, alpha |-> alpha]
             ELSE LET d == IF CrossesTrainingEnd(cur, point, i) THEN depth + 1 ELSE depth
                  IN  IF cur < point /\ i % 2 = 1
                      THEN LET f == FadeIn(cur, alpha_map[k - 1], point)
                           IN  [raised |-> f.raised, depth |-> d, alpha |-> f.alpha]
                      ELSE IF cur < point
                      THEN [raised |-> "", depth |-> d, alpha |-> alpha]
                      ELSE scan(cur, k + 1, d, alpha)

\* Mutant: no clamp.
ClampDepth_none(depth) == depth

\* `depth = min(self.max_depth, depth)`
ClampDepth(depth) == IF max_depth < depth THEN max_depth ELSE depth

\* Mutant: only the depth forced, alpha left as scanned.
ForceFinal_depth_only(r) ==
    IF disable_progression
    THEN [r EXCEPT !.depth = max_depth]
    ELSE r

\* `if self.disable_progression: depth = self.max_depth; alpha = 1.0`
ForceFinal(r) ==
    IF disable_progression
    THEN [raised |-> "", depth |-> max_depth, alpha |-> One]
    ELSE r

\* Mutant: the scan started at depth 0 instead of depth_offset.
calc_progress_from_zero(cur) ==
    LET s == scan(cur, 1, 0, One)
    IN  IF s.raised # "" THEN s
        ELSE ForceFinal([raised |-> "", depth |-> ClampDepth(s.depth), alpha |-> s.alpha])

calc_progress(cur) ==
    LET s == scan(cur, 1, depth_offset, One)
    IN  IF s.raised # "" THEN s
        ELSE ForceFinal([raised |-> "", depth |-> ClampDepth(s.depth), alpha |-> s.alpha])

----------------------------------------------------------------------------
(* The configurations and inputs explored. *)

KimgValues == {<<-1, 2>>, <<0, 1>>, <<1, 2>>, <<1, 1>>}

NoOverride == <<>>

\* training_kimg_override = transition_kimg_override = {1: 200, 2: 200, 3: 200, 4: 200}
ClassOverride == [s \in 1..ClassOverrideLastStage |-> <<ClassOverrideKimg, 1>>]

\* The class attributes as written, or both tables empty (the schedule with
\* no per-stage overrides).
OverridePairs == {<<NoOverride, NoOverride>>, <<ClassOverride, ClassOverride>>}

ScenarioInputs == {1200, 5000}

Offsets == {-1, 0, 1}

Boundaries == {alpha_map[k] : k \in DOMAIN alpha_map}

SetMax(S) == CHOOSE x \in S : \A y \in S : y <= x

NimgInputs ==
    Offsets \cup ScenarioInputs
    \cup {p + o : p \in Boundaries, o \in Offsets}
    \cup {SetMax(Boundaries \cup {0}) + FarBeyond}

----------------------------------------------------------------------------
(* The objects the DepthManager works on. *)

\* Python's None, and an object nobody has built.
None == [none |-> TRUE]

\* self.alpha = -1
MinusOne == <<-1, 1>>

\* Generator.__init__ and Discriminator.__init__: depth = 0, alpha = 1.0.
NewNetwork(md) == [depth |-> 0, alpha |-> One, max_depth |-> md]

\* A network read from a snapshot carries the depth and alpha it was saved with.
LoadedNetwork(md) == [depth |-> md, alpha |-> <<1, 2>>, max_depth |-> md]

\* The dataset after construction: model_depth = 0, alpha = 1.0.
NewDataset == [model_depth |-> 0, alpha |-> One]

\* DepthManager.minibatch_override
minibatch_override ==
    [s \in 0..11 |-> IF s <= 1 THEN 256 ELSE IF s <= 3 THEN 128 ELSE IF s = 4 THEN 48
                     ELSE IF s <= 7 THEN 32 ELSE IF s <= 9 THEN 16 ELSE 8]

\* DepthManager.tick_kimg_override
tick_kimg_override ==
    [s \in 4..11 |-> IF s <= 6 THEN <<4, 1>> ELSE IF s <= 8 THEN <<3, 1>>
                     ELSE IF s <= 10 THEN <<2, 1>> ELSE <<1, 1>>]

\* Constructor arguments of the manager that the runs keep fixed.
minibatch_default == 256
tick_kimg_default == <<5, 1>>
default_lr == <<1, 1000>>

\* DepthManager.__init__: no trainer, depth = -1, alpha = -1.
NewManager(reset_optimizer) ==
    [depth |-> -1, alpha |-> MinusOne, reset_optimizer |-> reset_optimizer, data_loader |-> None]

\* What one call of the optimizer factory returns, or train.py's Adam and
\* LambdaLR objects (call 0): the call tells the objects apart.
Made(call, lr) == [call |-> call, lr |-> lr]

\* DataLoader(dataset, minibatch_size, ..., num_workers = num_data_workers) and
\* iter() of it.  With worker processes, each worker is started with its own
\* copy of the dataset object, taken when the iterator is made; with none, the
\* batches are built by the training thread from the dataset itself.
DataLoader(call, minibatch_size, ds) ==
    [call |-> call, minibatch_size |-> minibatch_size,
     dataset |-> IF num_data_workers > 0 THEN ds ELSE None]

\* rl(bs): a sampler of bs latent vectors.
LatentSampler(call, bs) == [call |-> call, minibatch_size |-> bs]

\* No callback of the manager has run yet.
NoCallback ==
    [callback |-> "none", is_resuming |-> FALSE, depth_changed |-> FALSE,
     alpha_changed |-> FALSE, factory_calls |-> <<>>]

\* Nothing of the training run exists: the manager alone is exercised.
NoTraining ==
    /\ generator = None
    /\ discriminator = None
    /\ dataset = None
    /\ manager = None
    /\ trainer = None
    /\ factory = None
    /\ num_data_workers = 0
    /\ batch = None
    /\ last = NoCallback

NoPlugins ==
    /\ monitor = None
    /\ plugin_io = None
    /\ metrics = None
    /\ output_generator = None
    /\ checkpoints = None

----------------------------------------------------------------------------
(* DepthManager.__init__ *)

Init ==
    /\ depth_offset \in 0..MaxDepthOffset
    /\ max_depth \in 0..MaxDepth
    /\ disable_progression \in BOOLEAN
    /\ lod_training_kimg \in KimgValues
    /\ lod_transition_kimg \in KimgValues
    /\ \E p \in OverridePairs :
          /\ training_kimg_override = p[1]
          /\ transition_kimg_override = p[2]
    /\ alpha_map = pre_compute_alpha_map(depth_offset, max_depth,
                                         lod_training_kimg, training_kimg_override,
                                         lod_transition_kimg, transition_kimg_override)
    /\ calls = <<>>
    /\ pc = "calc_progress"
    /\ NoTraining
    /\ NoPlugins
    /\ raised = ""

\* A call dm.calc_progress(cur_nimg); the call and its result are remembered.
\* Successive calls are explored with increasing arguments, the order of the
\* sweep `for i in range(0, total_kimg * 1000, 1000)` of train.py and of the
\* trainer's sample counter; calc_progress reads no state that a call changes.
CalcProgress(cur_nimg) ==
    LET r == calc_progress(cur_nimg)
        c == [cur_nimg |-> cur_nimg, raised |-> r.raised, depth |-> r.depth, alpha |-> r.alpha]
    IN  /\ calls # <<>> => calls[Len(calls)].cur_nimg < cur_nimg
        /\ calls' = IF Len(calls) = 2 THEN <<calls[2], c>> ELSE Append(calls, c)
        /\ UNCHANGED <<config, training, plugins, raised>>

Next == \E cur_nimg \in NimgInputs : CalcProgress(cur_nimg)

Spec == Init /\ [][Next]_vars

----------------------------------------------------------------------------
(* Vocabulary of the properties. *)

Called == {calls[j] : j \in DOMAIN calls}

\* 1-based positions of the table: odd positions are the even indices of the
\* code (training ends), even positions its odd indices (transition ends).
TrainingEnds == {k \in DOMAIN alpha_map : k % 2 = 1}
TransitionEnds == {k \in DOMAIN alpha_map : k % 2 = 0}

StrictlyIncreasing(am) == \A k \in 1..(Len(am) - 1) : am[k] < am[k + 1]

Zero == <<0, 1>>

Min(a, b) == IF a < b THEN a ELSE b

\* cur lies above every boundary before position k.
AboveAllBefore(cur, k) == \A j \in 1..(k - 1) : alpha_map[j] < cur

\* cur lies strictly inside the segment that ends at position k.
StrictlyInside(cur, k) ==
    /\ cur < alpha_map[k]
    /\ k > 1 => alpha_map[k - 1] < cur

Scenario ==
    /\ depth_offset = 0
    /\ max_depth = 3
    /\ lod_training_kimg = <<1, 1>>
    /\ lod_transition_kimg = <<1, 2>>
    /\ training_kimg_override = NoOverride
    /\ transition_kimg_override = NoOverride
    /\ ~disable_progression

----------------------------------------------------------------------------
(* C1: in the scenario depth_offset = 0, max_depth = 3, 1 kimg of training  *)
(* and 0.5 kimg of transition per stage and no overrides, the table is      *)
(* [1000, 1500, 2500, 3000, 4000, 4500] and calc_progress gives (1, 0.4)    *)
(* at 1200, (1, 1.0) at 1500 and (3, 1.0) at 5000.                          *)
C1_Scenario ==
    Scenario =>
        /\ alpha_map = <<1000, 1500, 2500, 3000, 4000, 4500>>
        /\ \A c \in Called :
            /\ c.raised = ""
            /\ c.cur_nimg = 1200 => c.depth = 1 /\ c.alpha = <<2, 5>>
            /\ c.cur_nimg = 1500 => c.depth = 1 /\ c.alpha = One
            /\ c.cur_nimg = 5000 => c.depth = 3 /\ c.alpha = One

C1_Witness ==
    /\ Scenario
    /\ Len(calls) = 2
    /\ calls[1].cur_nimg = 1200 /\ calls[1].alpha = <<2, 5>>
    /\ calls[2].cur_nimg = 5000 /\ calls[2].depth = 3

(* C2: at a cur_nimg equal to a training-end boundary calc_progress returns *)
(* alpha = 1.0 and the depth it returns for every cur_nimg strictly inside  *)
(* the training segment that ends at that boundary.                         *)
C2_AtTrainingEnd ==
    /\ \A c \in Called : \A k \in TrainingEnds :
          c.cur_nimg = alpha_map[k] => c.raised = "" /\ c.alpha = One
    /\ Len(calls) = 2 =>
          \A k \in TrainingEnds :
              (calls[2].cur_nimg = alpha_map[k] /\ StrictlyInside(calls[1].cur_nimg, k))
                  => calls[1].depth = calls[2].depth

(* C3, as stated: strictly between a training-end boundary T and the next   *)
(* transition-end boundary T', alpha = (cur_nimg - T) / (T' - T), strictly  *)
(* between 0 and 1 and strictly increasing in cur_nimg, and the depth is    *)
(* one more than the depth of the training segment that ended at T.         *)
C3_AsStated ==
    /\ \A c \in Called : \A k \in TransitionEnds :
          StrictlyInside(c.cur_nimg, k) =>
              /\ c.raised = ""
              /\ c.alpha = Frac(c.cur_nimg - alpha_map[k - 1], alpha_map[k] - alpha_map[k - 1])
              /\ FracLess(Zero, c.alpha) /\ FracLess(c.alpha, One)
    /\ Len(calls) = 2 =>
          \A k \in TransitionEnds :
              StrictlyInside(calls[2].cur_nimg, k) =>
                  /\ StrictlyInside(calls[1].cur_nimg, k)
                        => FracLess(calls[1].alpha, calls[2].alpha)
                  /\ (calls[1].cur_nimg = alpha_map[k - 1]
                        \/ StrictlyInside(calls[1].cur_nimg, k - 1))
                        => calls[2].depth = calls[1].depth + 1

(* C3, amended: the same, when progression is not disabled and cur_nimg     *)
(* also lies above every boundary before T (as it does in an increasing     *)
(* table); the depth is depth_offset plus the number of training-end        *)
(* boundaries up to T.                                                      *)
C3_FadeInWhenProgressing ==
    ~disable_progression =>
        /\ \A c \in Called : \A k \in TransitionEnds :
              (StrictlyInside(c.cur_nimg, k) /\ AboveAllBefore(c.cur_nimg, k)) =>
                  /\ c.raised = ""
                  /\ c.alpha = Frac(c.cur_nimg - alpha_map[k - 1],
                                    alpha_map[k] - alpha_map[k - 1])
                  /\ FracLess(Zero, c.alpha) /\ FracLess(c.alpha, One)
                  /\ c.depth = depth_offset + (k \div 2)
        /\ Len(calls) = 2 =>
              \A k \in TransitionEnds :
                  (StrictlyInside(calls[2].cur_nimg, k) /\ AboveAllBefore(calls[2].cur_nimg, k)) =>
                      /\ (StrictlyInside(calls[1].cur_nimg, k) /\ AboveAllBefore(calls[1].cur_nimg, k))
                            => FracLess(calls[1].alpha, calls[2].alpha)
                      /\ (/\ AboveAllBefore(calls[1].cur_nimg, k - 1)
                          /\ \/ calls[1].cur_nimg = alpha_map[k - 1]
                             \/ StrictlyInside(calls[1].cur_nimg, k - 1))
                            => calls[2].depth = calls[1].depth + 1

C3_Witness ==
    /\ ~disable_progression
    /\ Len(calls) = 2
    /\ \E k \in TransitionEnds :
          /\ calls[1].cur_nimg = alpha_map[k - 1] + 1
          /\ calls[2].cur_nimg = alpha_map[k] - 1
          /\ calls[1].cur_nimg < calls[2].cur_nimg
          /\ AboveAllBefore(calls[1].cur_nimg, k)
          /\ FracLess(calls[1].alpha, calls[2].alpha)
          /\ calls[2].depth = depth_offset + (k \div 2)

(* C4: calc_progress is monotonic in depth: a smaller cur_nimg never gets a *)
(* larger depth, in every configuration.                                    *)
C4_DepthMonotonic ==
    Len(calls) = 2 =>
        (calls[1].cur_nimg < calls[2].cur_nimg => calls[1].depth <= calls[2].depth)

C4_Witness ==
    /\ Len(calls) = 2
    /\ calls[1].cur_nimg < calls[2].cur_nimg
    /\ calls[1].depth < calls[2].depth

(* C5: for every cur_nimg at or beyond the last boundary of the table       *)
(* calc_progress returns depth = max_depth and alpha = 1.0.                 *)
C5_ClampedAtEnd ==
    \A c \in Called :
        (alpha_map # <<>> /\ c.cur_nimg >= alpha_map[Len(alpha_map)])
            => c.raised = "" /\ c.depth = max_depth /\ c.alpha = One

(* C6, as stated: calc_progress(0) = (depth_offset, 1.0) in every           *)
(* configuration.                                                           *)
C6_AsStated ==
    \A c \in Called :
        c.cur_nimg = 0 => c.raised = "" /\ c.depth = depth_offset /\ c.alpha = One

(* C6, amended: calc_progress(0) = (depth_offset, 1.0) in every             *)
(* configuration with progression enabled, depth_offset <= max_depth and a  *)
(* first boundary that is not negative.                                     *)
C6_StartsAtOffset ==
    \A c \in Called :
        (/\ c.cur_nimg = 0
         /\ ~disable_progression
         /\ depth_offset <= max_depth
         /\ alpha_map # <<>> => alpha_map[1] >= 0)
            => c.raised = "" /\ c.depth = depth_offset /\ c.alpha = One

C6_Witness ==
    /\ ~disable_progression
    /\ 0 < depth_offset /\ depth_offset < max_depth
    /\ \E c \in Called : c.cur_nimg = 0 /\ c.depth = depth_offset /\ c.alpha = One

(* C7: with progression disabled calc_progress returns (max_depth, 1.0) for *)
(* every cur_nimg, 0 and the boundaries included.                           *)
C7_DisabledForcesFinal ==
    disable_progression =>
        \A c \in Called : c.raised = "" /\ c.depth = max_depth /\ c.alpha = One

C7_Witness ==
    /\ disable_progression
    /\ depth_offset < max_depth
    /\ StrictlyIncreasing(alpha_map)
    /\ Len(calls) = 2
    /\ calls[1].cur_nimg = 0 /\ calls[1].depth = max_depth
    /\ \E k \in TransitionEnds : StrictlyInside(calls[2].cur_nimg, k)
    /\ calls[2].alpha = One

C9_AlphaRange ==
    \A c \in Called :
        /\ c.raised = ""
        /\ ~FracLess(c.alpha, Zero) /\ ~FracLess(One, c.alpha)
        /\ c.alpha # One => \E k \in TransitionEnds : StrictlyInside(c.cur_nimg, k)

C9_Witness ==
    \E c \in Called :
        /\ FracLess(Zero, c.alpha) /\ FracLess(c.alpha, One)
        /\ \E k \in TransitionEnds : StrictlyInside(c.cur_nimg, k)

(* C10: the boundary table is strictly increasing and has exactly           *)
(* 2 * (max_depth - depth_offset) entries in every configuration the        *)
(* constructor takes.                                                       *)
C10_TableWellFormed ==
    /\ StrictlyIncreasing(alpha_map)
    /\ Len(alpha_map) = 2 * (max_depth - depth_offset)

----------------------------------------------------------------------------
(* The training run: main() of train.py builds the models, the trainer and  *)
(* the manager and registers the manager; the trainer then calls the        *)
(* manager's iteration() once per training iteration.                       *)

\* The schedules of the runs, <<lod_training_kimg, lod_transition_kimg,
\* override tables>>: the constructor's defaults with the class attributes as
\* written, and 1 kimg of training with no or 0.5 kimg of transition per
\* stage without overrides.
RunSchedules ==
    {<<<<400, 1>>, <<400, 1>>, ClassOverride>>,
     <<<<1, 1>>, <<0, 1>>, NoOverride>>,
     <<<<1, 1>>, <<1, 2>>, NoOverride>>}
Workers == {0, 2}

\* The sample counts a run passes through: the start, each boundary of the
\* table and the count just after it.
RunInputs(am) ==
    {0} \cup {n \in {am[k] + o : k \in DOMAIN am, o \in {0, 1}} : n >= 0}

InitRun ==
    /\ depth_offset \in 0..MaxDepthOffset
    /\ max_depth = 0
    /\ disable_progression \in BOOLEAN
    /\ \E s \in RunSchedules :
          /\ lod_training_kimg = s[1]
          /\ lod_transition_kimg = s[2]
          /\ training_kimg_override = s[3]
          /\ transition_kimg_override = s[3]
    /\ alpha_map = <<>>
    /\ calls = <<>>
    /\ pc = "main"
    /\ \E resume_network \in BOOLEAN, g \in 0..MaxDepth, d \in 0..MaxDepth :
          /\ ~resume_network => g = d
          /\ generator = IF resume_network THEN LoadedNetwork(g) ELSE NewNetwork(g)
          /\ discriminator = IF resume_network THEN LoadedNetwork(d) ELSE NewNetwork(d)
    /\ dataset = NewDataset
    /\ manager = None
    /\ trainer = None
    /\ factory = [get_optimizer |-> 0, create_dataloader_fun |-> 0, create_rlg |-> 0]
    /\ num_data_workers \in Workers
    /\ batch = None
    /\ last = NoCallback
    /\ NoPlugins
    /\ raised = ""

\* Trainer(D, G, ..., opt_d, opt_g, dataset, rl(mb_def), ...) at cur_nimg.
NewTrainer(cur_nimg, with_optimizers) ==
    LET made == IF with_optimizers THEN Made(0, default_lr) ELSE None
    IN  [cur_nimg |-> cur_nimg,
         optimizer_g |-> made, optimizer_d |-> made,
         lr_scheduler_g |-> made, lr_scheduler_d |-> made,
         dataiter |-> None,
         random_latents_generator |-> LatentSampler(0, minibatch_default),
         tick_duration_nimg |-> 0,
         stats |-> [minibatch_size |-> 0, depth |-> -1, alpha |-> MinusOne]]

\* The table of the manager that main() builds.
MainTable ==
    pre_compute_alpha_map(depth_offset, Min(generator.max_depth, discriminator.max_depth),
                          lod_training_kimg, training_kimg_override,
                          lod_transition_kimg, transition_kimg_override)

\* assert G.max_depth == D.max_depth
MaxDepthsAgree_unchecked == TRUE

MaxDepthsAgree == generator.max_depth = discriminator.max_depth

\* main() from the models to the manager's construction.
Main(reset_optimizer, with_optimizers, cur_nimg) ==
    /\ pc = "main"
    /\ IF ~MaxDepthsAgree
       THEN /\ raised' = "AssertionError"
            /\ pc' = "exit"
            /\ UNCHANGED <<config, manager, trainer>>
       ELSE     /\ max_depth' = Min(generator.max_depth, discriminator.max_depth)
                /\ alpha_map' = MainTable
                /\ manager' = NewManager(reset_optimizer)
                /\ trainer' = NewTrainer(cur_nimg, with_optimizers)
                /\ pc' = "register"
                /\ UNCHANGED <<depth_offset, disable_progression, lod_training_kimg,
                               lod_transition_kimg, training_kimg_override,
                               transition_kimg_override, raised>>
    /\ UNCHANGED <<calls, generator, discriminator, dataset, factory,
                   num_data_workers, batch, last, plugins>>

\* if depth != self.depth
DepthChanged_always(depth) == TRUE

DepthChanged(depth) == depth # manager.depth

\* if alpha != self.alpha
AlphaChanged_by_generator(alpha) == alpha # generator.alpha

AlphaChanged(alpha) == alpha # manager.alpha

\* Mutant: no reset either once the run was registered with optimizers.
ResetsOptimizer_never_after_resume(is_resuming) ==
    manager.reset_optimizer /\ ~is_resuming /\ trainer.optimizer_d = None

\* if self.reset_optimizer and not is_resuming
ResetsOptimizer_resuming_too(is_resuming) == manager.reset_optimizer

ResetsOptimizer(is_resuming) == manager.reset_optimizer /\ ~is_resuming

\* self.minibatch_override.get(depth - self.depth_offset, self.minibatch_default)
MinibatchSize(depth) == Get(minibatch_override, depth - depth_offset, minibatch_default)

\* int(self.tick_kimg_override.get(depth - self.depth_offset, self.tick_kimg_default) * 1000)
TickDurationNimg(depth) ==
    KimgToNimg(Get(tick_kimg_override, depth - depth_offset, tick_kimg_default))

\* Mutant: the learning rate left as configured, whatever the minibatch size.
ScaledLr_unscaled(minibatch_size) == default_lr

\* self.minibatch_default * self.default_lr / minibatch_size
ScaledLr(minibatch_size) ==
    Frac(minibatch_default * default_lr[1], minibatch_size * default_lr[2])

\* The factories a depth change calls, in the order of the statements.
FactoryCalls(dc, reset) ==
    IF ~dc THEN <<>>
    ELSE (IF reset THEN <<"get_optimizer">> ELSE <<>>)
         \o <<"create_dataloader_fun", "create_rlg">>

\* DepthManager.iteration on the trainer t, called by `callback`.
iteration(t, is_resuming, callback) ==
    LET r == calc_progress(t.cur_nimg)
        depth == r.depth
        alpha == r.alpha
        dc == DepthChanged(depth)
        ac == AlphaChanged(alpha)
        minibatch_size == MinibatchSize(depth)
        reset == dc /\ ResetsOptimizer(is_resuming)
        made == Made(factory.get_optimizer + 1, ScaledLr(minibatch_size))
        ds == [dataset EXCEPT !.model_depth = IF dc THEN depth ELSE @]
        data_loader == DataLoader(factory.create_dataloader_fun + 1, minibatch_size, ds)
    IN  IF r.raised # ""
        THEN /\ raised' = r.raised
             /\ pc' = "exit"
             /\ trainer' = t
             /\ UNCHANGED <<generator, discriminator, dataset, manager, factory, last>>
        ELSE /\ generator' = [generator EXCEPT !.depth = IF dc THEN depth ELSE @,
                                                !.alpha = IF ac THEN alpha ELSE @]
             /\ discriminator' = [discriminator EXCEPT !.depth = IF dc THEN depth ELSE @,
                                                        !.alpha = IF ac THEN alpha ELSE @]
             /\ dataset' = [ds EXCEPT !.alpha = IF ac THEN alpha ELSE @]
             /\ manager' = [manager EXCEPT !.depth = IF dc THEN depth ELSE @,
                                            !.alpha = IF ac THEN alpha ELSE @,
                                            !.data_loader = IF dc THEN data_loader ELSE @]
             /\ factory' = [get_optimizer |-> factory.get_optimizer + (IF reset THEN 1 ELSE 0),
                            create_dataloader_fun |->
                                factory.create_dataloader_fun + (IF dc THEN 1 ELSE 0),
                            create_rlg |-> factory.create_rlg + (IF dc THEN 1 ELSE 0)]
             /\ trainer' =
                  [t EXCEPT !.optimizer_g = IF reset THEN made ELSE @,
                            !.optimizer_d = IF reset THEN made ELSE @,
                            !.lr_scheduler_g = IF reset THEN made ELSE @,
                            !.lr_scheduler_d = IF reset THEN made ELSE @,
                            !.dataiter = IF dc THEN data_loader ELSE @,
                            !.random_latents_generator =
                                IF dc THEN LatentSampler(factory.create_rlg + 1, minibatch_size)
                                ELSE @,
                            !.tick_duration_nimg = IF dc THEN TickDurationNimg(depth) ELSE @,
                            !.stats = [minibatch_size |-> IF dc THEN minibatch_size
                                                          ELSE t.stats.minibatch_size,
                                       depth |-> depth,
                                       alpha |-> alpha]]
             /\ last' = [callback |-> callback, is_resuming |-> is_resuming,
                         depth_changed |-> dc, alpha_changed |-> ac,
                         factory_calls |-> FactoryCalls(dc, reset)]
             /\ pc' = IF callback = "register" THEN "loop" ELSE "train"
             /\ raised' = raised

\* self.iteration(is_resuming=self.trainer.optimizer_d is not None)
RegisterIsResuming_never == FALSE

RegisterIsResuming == trainer.optimizer_d # None

\* trainer.register_plugin(DepthManager(...)): DepthManager.register
Register ==
    /\ pc = "register"
    /\ iteration([trainer EXCEPT !.stats.minibatch_size = minibatch_default,
                                 !.stats.alpha = manager.alpha],
                 RegisterIsResuming, "register")
    /\ UNCHANGED <<config, calls, num_data_workers, batch, plugins>>

\* The trainer's call of the manager's iteration() before a training step;
\* is_resuming is whatever the trainer passes first.
Iteration(is_resuming) ==
    /\ pc = "loop"
    /\ iteration(trainer, is_resuming, "iteration")
    /\ UNCHANGED <<config, calls, num_data_workers, batch, plugins>>

\* The batch next(self.dataiter) yields: built by a worker from the worker's
\* copy of the dataset, or by the training thread from the dataset.
NextBatch ==
    IF trainer.dataiter.dataset = None THEN dataset ELSE trainer.dataiter.dataset

\* One training step: a batch is consumed and cur_nimg grows.
TrainStep(cur_nimg) ==
    /\ pc = "train"
    /\ cur_nimg > trainer.cur_nimg
    /\ batch' = NextBatch
    /\ trainer' = [trainer EXCEPT !.cur_nimg = cur_nimg]
    /\ pc' = "loop"
    /\ UNCHANGED <<config, calls, generator, discriminator, dataset, manager, factory,
                   num_data_workers, last, plugins, raised>>

NextRun ==
    \/ \E reset_optimizer \in BOOLEAN, with_optimizers \in BOOLEAN,
          cur_nimg \in RunInputs(MainTable) :
          Main(reset_optimizer, with_optimizers, cur_nimg)
    \/ Register
    \/ \E is_resuming \in BOOLEAN : Iteration(is_resuming)
    \/ \E cur_nimg \in RunInputs(alpha_map) : TrainStep(cur_nimg)

SpecRun == InitRun /\ [][NextRun]_vars

----------------------------------------------------------------------------
(* Vocabulary of the properties of the run. *)

\* A step that is the manager's register() / a call of its iteration().
RegisterStep == pc = "register" /\ pc' = "loop"
IterationStep == pc = "loop" /\ pc' = "train"

\* The manager has been registered.
Registered == pc \in {"loop", "train"}

Optimizers(t) == <<t.optimizer_g, t.optimizer_d, t.lr_scheduler_g, t.lr_scheduler_d>>

\* The depth that calc_progress gives for the trainer's sample count.
DueDepth == calc_progress(trainer.cur_nimg).depth
DueAlpha == calc_progress(trainer.cur_nimg).alpha

----------------------------------------------------------------------------
(* C11: after register() and after every iteration(), the depth of the      *)
(* generator, of the discriminator, of the dataset and of the manager are   *)
(* equal, and so are their alphas; no state between two iteration callbacks *)
(* has them disagree.                                                       *)
C11_AllAgree ==
    Registered =>
        /\ generator.depth = manager.depth
        /\ discriminator.depth = manager.depth
        /\ dataset.model_depth = manager.depth
        /\ generator.alpha = manager.alpha
        /\ discriminator.alpha = manager.alpha
        /\ dataset.alpha = manager.alpha

C11_Witness ==
    /\ pc = "train"
    /\ last.callback = "iteration"
    /\ last.depth_changed
    /\ last.alpha_changed
    /\ manager.alpha # One
    /\ generator.depth = manager.depth
    /\ dataset.alpha = manager.alpha

(* C12: a call of iteration() for which calc_progress gives the depth the   *)
(* manager has recorded calls no factory and leaves the trainer's dataiter, *)
(* latent sampler, optimizers, lr schedulers, tick_duration_nimg and        *)
(* stats['minibatch_size'] as they were, also when alpha changes.           *)
C12_SameDepthKeepsResources ==
    [][(IterationStep /\ DueDepth = manager.depth) =>
          /\ factory' = factory
          /\ trainer'.dataiter = trainer.dataiter
          /\ trainer'.random_latents_generator = trainer.random_latents_generator
          /\ Optimizers(trainer') = Optimizers(trainer)
          /\ trainer'.tick_duration_nimg = trainer.tick_duration_nimg
          /\ trainer'.stats.minibatch_size = trainer.stats.minibatch_size]_vars

C12_Witness ==
    /\ last.callback = "iteration"
    /\ ~last.depth_changed
    /\ last.alpha_changed
    /\ factory.create_dataloader_fun = 1

(* C13: a call of iteration() with is_resuming true for which the depth     *)
(* differs from the recorded one leaves the optimizers and schedulers in    *)
(* place whatever reset_optimizer is, and makes a new dataloader, iterator  *)
(* and latent sampler of the minibatch size looked up for the new depth.    *)
C13_ResumingKeepsOptimizers ==
    [][((RegisterStep \/ IterationStep) /\ last'.is_resuming /\ DueDepth # manager.depth) =>
          /\ Optimizers(trainer') = Optimizers(trainer)
          /\ factory'.get_optimizer = factory.get_optimizer
          /\ factory'.create_dataloader_fun = factory.create_dataloader_fun + 1
          /\ factory'.create_rlg = factory.create_rlg + 1
          /\ manager'.data_loader.call = factory'.create_dataloader_fun
          /\ trainer'.dataiter = manager'.data_loader
          /\ trainer'.dataiter.minibatch_size = MinibatchSize(DueDepth)
          /\ trainer'.random_latents_generator =
                 LatentSampler(factory'.create_rlg, MinibatchSize(DueDepth))]_vars

C13_Witness ==
    /\ last.callback = "iteration"
    /\ last.is_resuming
    /\ last.depth_changed
    /\ manager.reset_optimizer
    /\ factory.create_dataloader_fun = 2
    /\ factory.get_optimizer = 0

(* C14: when the manager is registered on a trainer whose cur_nimg was      *)
(* restored (any value >= 0), then on return from register() generator,     *)
(* discriminator and dataset carry the depth and alpha of                   *)
(* calc_progress(trainer.cur_nimg), a dataloader iterator and a latent      *)
(* sampler exist for that depth, and the trainer's restored optimizers are  *)
(* the ones it had.                                                         *)
C14_RegisterRestores ==
    [][RegisterStep =>
          /\ generator'.depth = DueDepth /\ generator'.alpha = DueAlpha
          /\ discriminator'.depth = DueDepth /\ discriminator'.alpha = DueAlpha
          /\ dataset'.model_depth = DueDepth /\ dataset'.alpha = DueAlpha
          /\ trainer'.dataiter # None
          /\ trainer'.dataiter.minibatch_size = MinibatchSize(DueDepth)
          /\ trainer'.random_latents_generator.call = 1
          /\ trainer'.random_latents_generator.minibatch_size = MinibatchSize(DueDepth)
          /\ trainer.optimizer_d # None => Optimizers(trainer') = Optimizers(trainer)]_vars

C14_Witness ==
    /\ last.callback = "register"
    /\ trainer.cur_nimg > 0
    /\ manager.depth > depth_offset
    /\ manager.alpha # One
    /\ manager.reset_optimizer
    /\ trainer.optimizer_d = Made(0, default_lr)
    /\ generator.max_depth > 0

(* C15: whenever generator and discriminator disagree on max_depth, the     *)
(* set-up ends with a fatal assertion before a DepthManager is built or     *)
(* registered and before any training iteration runs.                       *)
C15_MismatchIsFatal ==
    generator.max_depth # discriminator.max_depth =>
        /\ pc \in {"main", "exit"}
        /\ pc = "exit" => raised = "AssertionError"
        /\ manager = None
        /\ trainer = None
        /\ last = NoCallback
        /\ batch = None

C15_Witness ==
    /\ generator.max_depth # discriminator.max_depth
    /\ pc = "exit"
    /\ raised = "AssertionError"

(* C16: a configuration whose boundary table would not be increasing (from  *)
(* a zero or negative segment length, say) is rejected with a fatal error   *)
(* when the DepthManager is constructed: no manager with such a table       *)
(* exists.                                                                  *)
C16_RejectsNonMonotonic ==
    ~StrictlyIncreasing(alpha_map) => raised # ""

----------------------------------------------------------------------------
(* Managers whose stages differ in length: every stage has its own entry    *)
(* in training_kimg_override and transition_kimg_override.                  *)

StageKimg == {<<-1, 2>>, <<0, 1>>, <<1, 2>>}

InitStages ==
    /\ depth_offset = 0
    /\ max_depth \in 1..MaxStages
    /\ disable_progression = FALSE
    /\ lod_training_kimg = <<1, 1>>
    /\ lod_transition_kimg = <<1, 2>>
    /\ training_kimg_override \in [1..max_depth -> StageKimg]
    /\ transition_kimg_override \in [1..max_depth -> StageKimg]
    /\ alpha_map = pre_compute_alpha_map(depth_offset, max_depth,
                                         lod_training_kimg, training_kimg_override,
                                         lod_transition_kimg, transition_kimg_override)
    /\ calls = <<>>
    /\ pc = "calc_progress"
    /\ NoTraining
    /\ NoPlugins
    /\ raised = ""

SpecStages == InitStages /\ [][Next]_vars

NonDecreasing(am) == \A k \in 1..(Len(am) - 1) : am[k] <= am[k + 1]

\* The transition that ends at position k has length zero.
ZeroLengthTransition(k) == k \in TransitionEnds /\ alpha_map[k] = alpha_map[k - 1]

(* C17, as stated: on a table in which a transition-end boundary equals its *)
(* training-end boundary T, calc_progress never divides by zero, and it     *)
(* returns alpha = 1.0 at T and next to it, at T - 1 and T + 1.             *)
C17_AsStated ==
    \A c \in Called :
        \A k \in DOMAIN alpha_map :
            ZeroLengthTransition(k) =>
                /\ c.raised = ""
                /\ c.cur_nimg \in {alpha_map[k] - 1, alpha_map[k], alpha_map[k] + 1}
                       => c.alpha = One

(* C17, amended: calc_progress never divides by zero, on any table and for  *)
(* any cur_nimg; on a table that does not decrease and in which a           *)
(* transition-end boundary equals its training-end boundary T, it returns   *)
(* alpha = 1.0 at T, at T - 1 when the training segment ending at T is not  *)
(* empty, and at T + 1 when the training segment starting at T is not       *)
(* empty.                                                                   *)
C17_ZeroLengthTransition ==
    \A c \in Called :
        /\ c.raised = ""
        /\ \A k \in DOMAIN alpha_map :
              (ZeroLengthTransition(k) /\ NonDecreasing(alpha_map)) =>
                  /\ c.cur_nimg = alpha_map[k] => c.alpha = One
                  /\ (/\ c.cur_nimg = alpha_map[k] - 1
                      /\ k > 2 => alpha_map[k - 2] < alpha_map[k])
                         => c.alpha = One
                  /\ (/\ c.cur_nimg = alpha_map[k] + 1
                      /\ k < Len(alpha_map) => alpha_map[k] < alpha_map[k + 1])
                         => c.alpha = One

C17_Witness ==
    /\ Len(calls) = 2
    /\ NonDecreasing(alpha_map)
    /\ \E j \in TransitionEnds : alpha_map[j - 1] < alpha_map[j]
    /\ \E k \in DOMAIN alpha_map :
          /\ ZeroLengthTransition(k)
          /\ calls[1].cur_nimg = alpha_map[k] - 1
          /\ calls[2].cur_nimg = alpha_map[k]
          /\ calls[1].raised = "" /\ calls[1].alpha = One
          /\ calls[2].raised = "" /\ calls[2].alpha = One

----------------------------------------------------------------------------
(* The plugins the trainer calls besides the manager: an                    *)
(* EfficientLossMonitor, the SaverPlugin and the OutputGenerator.           *)

\* A float that is not a number: the only value with val != val.
NaN == <<0, 0>>

\* The losses and epoch means explored (whole numbers, and NaN).
LossValues == {<<-11, 1>>, <<0, 1>>, <<10, 1>>, <<11, 1>>, NaN}

NaNError == "ValueError: loss value is NaN :(("
ThresholdError == "ValueError: loss value exceeded the threshold"

\* EfficientLossMonitor.__init__: counter = 0.  exceeded counts the checks in
\* a row that found the mean beyond the threshold, checked tells how the last
\* check went, val is the last loss read, idx the last epoch index and
\* epoch_mean the trainer's stats[stat_name]['epoch_mean'] at that epoch.
NewMonitor ==
    [counter |-> 0, exceeded |-> 0, checked |-> "none", val |-> <<0, 1>>, idx |-> 0,
     epoch_mean |-> <<0, 1>>]

NoPluginCall == [callback |-> "none", io_error |-> FALSE, propagated |-> FALSE, logged |-> FALSE]

\* if epoch_index % self.output_snapshot_ticks == 0  (in OutputGenerator.epoch;
\* FidCalculator.epoch and NDBScore.epoch return when it fails)
IsSnapshotEpoch(epoch_index) == epoch_index % OutputSnapshotTicks = 0

\* The checkpoints directory holds files; a file has a path and, for a
\* snapshot, the cur_nimg and the model parameters saved in it.
File(path, cur_nimg, model) == [path |-> path, cur_nimg |-> cur_nimg, model |-> model]

\* os.path.join(dir, SaverPlugin.last_pattern.format(name, tag)) with
\* last_pattern = 'network-snapshot-{}-{}.dat'
SnapshotPath(name, tag) ==
    [prefix |-> "network-snapshot", name |-> name, tag |-> tag, ext |-> "dat"]

\* os.path.join(dir, '{}_{}.png'.format(epoch_index, i)), for the first image
ImagePath(epoch_index) ==
    [prefix |-> "", name |-> "image", tag |-> epoch_index, ext |-> "png"]

\* Mutant: only the snapshots of the two trained networks match.
Matches_trained_networks(path) ==
    /\ path.prefix = "network-snapshot"
    /\ path.ext = "dat"
    /\ path.name \in {"generator", "discriminator"}

\* glob(last_pattern.format('*', '*')): the paths 'network-snapshot-*-*.dat'
Matches(path) == path.prefix = "network-snapshot" /\ path.ext = "dat"

\* '{:06}'.format(self.trainer.cur_nimg // 1000)
SnapshotTag(cur_nimg) == cur_nimg \div NimgPerKimg

\* open(path, 'wb'): a file of that path is replaced.
Write(files, file) == {f \in files : f.path # file.path} \cup {file}

\* old_weight = 0.59
old_weight == <<59, 100>>

\* avg_p.mul_(self.old_weight).add_((1.0 - self.old_weight) * p.data)
RunningAverage(avg_p, p) ==
    Frac(old_weight[1] * avg_p[1] * p[2] + (old_weight[2] - old_weight[1]) * p[1] * avg_p[2],
         old_weight[2] * avg_p[2] * p[2])

\* The values a parameter of a network takes.
ParamValues == {Zero, One}

\* OutputGenerator.register: my_g_clone = flatten_params(generator);
\* epoch_index is the index of its last epoch.
NewOutputGenerator == [my_g_clone |-> generator.params, epoch_index |-> 0]

\* SaverPlugin.__init__ on an empty directory.
NewCheckpoints(keep_old_checkpoints) ==
    [keep_old_checkpoints |-> keep_old_checkpoints, files |-> {}]

\* The trainer and the networks as the plugins see them, and the plugins
\* that write into the checkpoints directory.
InitSnapshots(keeps) ==
    /\ generator = [params |-> Zero]
    /\ discriminator = [params |-> Zero]
    /\ dataset = None
    /\ manager = None
    /\ trainer = [cur_nimg |-> 0]
    /\ factory = None
    /\ num_data_workers = 0
    /\ batch = None
    /\ last = NoCallback
    /\ output_generator = NewOutputGenerator
    /\ \E keep_old_checkpoints \in keeps : checkpoints = NewCheckpoints(keep_old_checkpoints)

InitPlugins ==
    /\ depth_offset = 0
    /\ max_depth = 0
    /\ disable_progression = FALSE
    /\ lod_training_kimg = <<1, 1>>
    /\ lod_transition_kimg = <<1, 2>>
    /\ training_kimg_override = ClassOverride
    /\ transition_kimg_override = ClassOverride
    /\ alpha_map = <<>>
    /\ calls = <<>>
    /\ pc = "run"
    /\ InitSnapshots({TRUE})
    /\ monitor = NewMonitor
    /\ plugin_io = NoPluginCall
    /\ metrics = None
    /\ raised = ""

\* if val != val
IsNaN(val) == val[2] = 0

\* Mutant: the last warmup epoch checked already.
PastWarmup_at_warmup(idx) == idx >= MonitorWarmup

\* if idx > self.warmup
PastWarmup(idx) == idx > MonitorWarmup

\* if abs(loss_value) > self.threshold  (false for NaN)
Exceeds(loss_value) == ~IsNaN(loss_value) /\ Abs(loss_value[1]) > MonitorThreshold * loss_value[2]

\* if self.counter > self.patience
OutOfPatience_at_patience(counter) == counter >= MonitorPatience

OutOfPatience(counter) == counter > MonitorPatience

\* EfficientLossMonitor._get_value on a loss val, called for every iteration.
MonitorGetValue(val) ==
    /\ pc = "run"
    /\ monitor' = [monitor EXCEPT !.val = val]
    /\ IF IsNaN(val)
       THEN raised' = NaNError /\ pc' = "exit"
       ELSE UNCHANGED <<raised, pc>>
    /\ UNCHANGED <<config, calls, generator, discriminator, dataset, manager, trainer,
                   factory, num_data_workers, batch, last, plugin_io, metrics,
                   output_generator, checkpoints>>

\* EfficientLossMonitor.epoch(idx) with trainer.stats[stat_name]['epoch_mean']
\* equal to loss_value.
MonitorEpoch(loss_value) ==
    LET idx == monitor.idx + 1
        counter == IF ~PastWarmup(idx) THEN monitor.counter
                   ELSE IF Exceeds(loss_value) THEN monitor.counter + 1
                   ELSE 0
        aborts == PastWarmup(idx) /\ Exceeds(loss_value) /\ OutOfPatience(counter)
    IN  /\ pc = "run"
        /\ idx <= MaxEpochs
        /\ monitor' = [monitor EXCEPT
                          !.idx = idx,
                          !.epoch_mean = loss_value,
                          !.counter = counter,
                          !.exceeded = IF idx <= MonitorWarmup THEN @
                                       ELSE IF Exceeds(loss_value) THEN @ + 1 ELSE 0,
                          !.checked = IF idx <= MonitorWarmup THEN "none"
                                      ELSE IF Exceeds(loss_value) THEN "exceeded"
                                      ELSE "within"]
        /\ IF aborts
           THEN raised' = ThresholdError /\ pc' = "exit"
           ELSE UNCHANGED <<raised, pc>>
        /\ UNCHANGED <<config, calls, generator, discriminator, dataset, manager, trainer,
                       factory, num_data_workers, batch, last, plugin_io, metrics,
                   output_generator, checkpoints>>

\* A plugin callback that writes files with torch.save / imwrite (and removes
\* files with os.remove): an I/O error raised by the write is not caught in
\* the callback.
WritesFiles(callback, io_error) ==
    /\ pc = "run"
    /\ plugin_io' = [callback |-> callback, io_error |-> io_error,
                     propagated |-> io_error, logged |-> FALSE]
    /\ IF io_error
       THEN raised' = "OSError" /\ pc' = "exit"
       ELSE UNCHANGED <<raised, pc>>
    /\ UNCHANGED <<config, calls, discriminator, dataset, manager, trainer,
                   factory, num_data_workers, batch, last, monitor, metrics>>

\* The call of SaverPlugin.epoch that raises an I/O error, if any.
SaverFaults == {"none", "os.remove", "torch.save generator", "torch.save discriminator"}

\* SaverPlugin.epoch, called as `callback`: _clear() unless the old
\* checkpoints are kept, then a snapshot of each network.  os.remove fails
\* after some of the files are removed.
Save(callback, fault) ==
    LET files == checkpoints.files
        matching == {f \in files : Matches(f.path)}
        tag == SnapshotTag(trainer.cur_nimg)
        g == File(SnapshotPath("generator", tag), trainer.cur_nimg, generator.params)
        d == File(SnapshotPath("discriminator", tag), trainer.cur_nimg, discriminator.params)
    IN  /\ fault = "os.remove" => ~checkpoints.keep_old_checkpoints
        /\ WritesFiles(callback, fault # "none")
        /\ \E removed \in (IF fault = "os.remove" THEN (SUBSET matching) \ {matching}
                           ELSE IF checkpoints.keep_old_checkpoints THEN {{}}
                           ELSE {matching}) :
              checkpoints' =
                  [checkpoints EXCEPT !.files =
                       IF fault \in {"os.remove", "torch.save generator"}
                       THEN files \ removed
                       ELSE IF fault = "torch.save discriminator"
                       THEN Write(files \ removed, g)
                       ELSE Write(Write(files \ removed, g), d)]
        /\ UNCHANGED <<generator, output_generator>>

\* SaverPlugin.epoch
SaverEpoch(fault) == Save("SaverPlugin.epoch", fault)

\* SaverPlugin.end
SaverEnd(fault) == Save("SaverPlugin.end", fault)

\* The call of OutputGenerator.epoch that raises an I/O error, if any.
OutputFaults == {"none", "torch.save", "imwrite"}

\* OutputGenerator.epoch(epoch_index): my_g_clone is updated; on a snapshot
\* epoch the averaged parameters are loaded into the generator, saved and
\* sampled from, then the original ones are loaded back and the images are
\* written.
OutputGeneratorEpoch(fault) ==
    LET epoch_index == output_generator.epoch_index + 1
        my_g_clone == RunningAverage(output_generator.my_g_clone, generator.params)
        original_param == generator.params
        snapshot == IsSnapshotEpoch(epoch_index)
        files == checkpoints.files
        smooth == File(SnapshotPath("smooth_generator", SnapshotTag(trainer.cur_nimg)),
                       trainer.cur_nimg, my_g_clone)
        image == File(ImagePath(epoch_index), trainer.cur_nimg, my_g_clone)
    IN  /\ epoch_index <= MaxOutputEpochs
        /\ fault # "none" => snapshot
        /\ WritesFiles("OutputGenerator.epoch", fault # "none")
        /\ output_generator' = [my_g_clone |-> my_g_clone, epoch_index |-> epoch_index]
        /\ generator' = [generator EXCEPT !.params =
                             IF snapshot /\ fault = "torch.save" THEN my_g_clone
                             ELSE original_param]
        /\ checkpoints' =
               [checkpoints EXCEPT !.files =
                    IF ~snapshot \/ fault = "torch.save" THEN files
                    ELSE IF fault = "imwrite" THEN Write(files, smooth)
                    ELSE Write(Write(files, smooth), image)]

NextPlugins ==
    \/ \E val \in LossValues : MonitorGetValue(val)
    \/ \E loss_value \in LossValues : MonitorEpoch(loss_value)
    \/ \E fault \in SaverFaults : SaverEpoch(fault)
    \/ \E fault \in SaverFaults : SaverEnd(fault)
    \/ \E fault \in OutputFaults : OutputGeneratorEpoch(fault)

SpecPlugins == InitPlugins /\ [][NextPlugins]_vars

(* C18: the loss monitor aborts the run with an explicit error as soon as a *)
(* loss value is NaN, and as soon as the absolute epoch mean has exceeded   *)
(* the threshold on more than `patience` checks in a row; a check within    *)
(* the threshold sets the count back to zero, and `patience` or fewer       *)
(* exceedances in a row never abort.                                        *)
C18_MonitorAborts ==
    /\ IsNaN(monitor.val) <=> raised = NaNError
    /\ monitor.exceeded > MonitorPatience <=> raised = ThresholdError
    /\ raised \in {NaNError, ThresholdError} => pc = "exit"
    /\ monitor.checked = "within" => monitor.counter = 0
    /\ monitor.checked = "exceeded" => monitor.counter = monitor.exceeded

C18_Witness ==
    /\ raised = ThresholdError
    /\ pc = "exit"
    /\ monitor.exceeded = MonitorPatience + 1
    /\ monitor.idx > MonitorWarmup + MonitorPatience + 1

(* C19: an I/O error raised while a checkpoint is saved (SaverPlugin.epoch, *)
(* SaverPlugin.end) or sample plots are written (OutputGenerator.epoch) is  *)
(* logged and does not leave the plugin callback: training goes on.         *)
C19_IOErrorContained ==
    plugin_io.io_error =>
        /\ plugin_io.logged
        /\ ~plugin_io.propagated
        /\ raised = ""
        /\ pc = "run"

(* C20: every batch a training step consumes was built by the dataset with  *)
(* the model_depth and the alpha that generator and discriminator have in   *)
(* that step, the ones the manager set for the iteration; no batch, those   *)
(* prefetched by dataloader workers included, is built from another depth   *)
(* or alpha.                                                                *)
C20_BatchMatchesModels ==
    (pc = "loop" /\ batch # None) =>
        /\ batch.model_depth = generator.depth
        /\ batch.model_depth = discriminator.depth
        /\ batch.alpha = generator.alpha
        /\ batch.alpha = discriminator.alpha

----------------------------------------------------------------------------
(* C21: the boundary table has two entries per stage i from depth_offset to *)
(* max_depth - 1, a running sum to which first the training length and then *)
(* the transition length of the stage is added; each length is the override *)
(* keyed by the destination stage i + 1, or the default when that key is    *)
(* absent; entries at even indices end a training segment, entries at odd   *)
(* indices a transition.                                                    *)
C21_TableByDestinationStage ==
    /\ Len(alpha_map) = 2 * (IF max_depth > depth_offset THEN max_depth - depth_offset ELSE 0)
    /\ \A j \in 1..(Len(alpha_map) \div 2) :
          LET before == IF j = 1 THEN 0 ELSE alpha_map[2 * j - 2]
              stage == depth_offset + j
          IN  /\ alpha_map[2 * j - 1] =
                     before + KimgToNimg(Get(training_kimg_override, stage, lod_training_kimg))
              /\ alpha_map[2 * j] =
                     alpha_map[2 * j - 1]
                     + KimgToNimg(Get(transition_kimg_override, stage, lod_transition_kimg))

C21_Witness ==
    /\ training_kimg_override = ClassOverride
    /\ lod_training_kimg # <<ClassOverrideKimg, 1>>
    /\ depth_offset = 0
    /\ Len(alpha_map) = 6
    /\ alpha_map[1] = ClassOverrideKimg * NimgPerKimg
    /\ alpha_map[6] = 6 * ClassOverrideKimg * NimgPerKimg
    /\ calls # <<>>

(* C22: a call of iteration() that changes the depth rebuilds the           *)
(* dataloader and the latent sampler with one and the same minibatch size,  *)
(* which is the minibatch override configured for the new depth (the        *)
(* default when there is none) and is recorded in stats['minibatch_size'],  *)
(* for every depth_offset.                                                  *)
C22_OverrideOfNewDepth ==
    [][((RegisterStep \/ IterationStep) /\ DueDepth # manager.depth) =>
          LET size == Get(minibatch_override, DueDepth, minibatch_default)
          IN  /\ manager'.data_loader.minibatch_size = size
              /\ trainer'.dataiter.minibatch_size = size
              /\ trainer'.random_latents_generator.minibatch_size = size
              /\ trainer'.stats.minibatch_size = size]_vars

(* C23: a call of iteration() that changes the depth, with reset_optimizer  *)
(* enabled and is_resuming false, replaces both optimizers and both         *)
(* schedulers by the result of one call of the optimizer factory with the   *)
(* learning rate minibatch_default * default_lr / new minibatch size; the   *)
(* factory is called before the dataloader is rebuilt and exactly once.     *)
C23_OneFactoryCallPerDepthChange ==
    [][((RegisterStep \/ IterationStep) /\ DueDepth # manager.depth
            /\ manager.reset_optimizer /\ ~last'.is_resuming) =>
          LET new_minibatch_size == trainer'.stats.minibatch_size
              lr == Frac(minibatch_default * default_lr[1],
                         new_minibatch_size * default_lr[2])
              made == Made(factory.get_optimizer + 1, lr)
          IN  /\ Optimizers(trainer') = <<made, made, made, made>>
              /\ Optimizers(trainer') # Optimizers(trainer)
              /\ factory'.get_optimizer = factory.get_optimizer + 1
              /\ trainer'.dataiter.minibatch_size = new_minibatch_size
              /\ last'.factory_calls =
                     <<"get_optimizer", "create_dataloader_fun", "create_rlg">>]_vars

C23_Witness ==
    /\ last.callback = "iteration"
    /\ ~last.is_resuming
    /\ last.depth_changed
    /\ manager.reset_optimizer
    /\ factory.get_optimizer = 2
    /\ trainer.stats.minibatch_size # minibatch_default
    /\ trainer.optimizer_g = Made(2, <<1, 500>>)

----------------------------------------------------------------------------
(* The gamma sub-schedule (attention fade-in) of the manager: start_gamma   *)
(* is a training-end boundary of the table, end_gamma lies                  *)
(* attention_transition_nimg after it; iteration() recomputes gamma from    *)
(* the trainer's sample count.                                              *)

\* The lengths of the attention fade-in explored, in samples.
AttentionNimg == {0, 500, 1000}

NewAttention(configured, start_gamma, attention_transition_nimg) ==
    [depth |-> -1, alpha |-> MinusOne, attention |-> configured,
     start_gamma |-> start_gamma,
     end_gamma |-> start_gamma + attention_transition_nimg,
     attention_transition_nimg |-> attention_transition_nimg]

InitGamma ==
    /\ depth_offset = 0
    /\ max_depth \in 1..MaxStages
    /\ disable_progression \in BOOLEAN
    /\ \E s \in RunSchedules :
          /\ lod_training_kimg = s[1]
          /\ lod_transition_kimg = s[2]
          /\ training_kimg_override = s[3]
          /\ transition_kimg_override = s[3]
    /\ alpha_map = pre_compute_alpha_map(depth_offset, max_depth, lod_training_kimg,
                                         training_kimg_override, lod_transition_kimg,
                                         transition_kimg_override)
    /\ calls = <<>>
    /\ pc = "gamma"
    /\ generator = [gamma |-> MinusOne]
    /\ discriminator = [gamma |-> MinusOne]
    /\ dataset = None
    /\ \E configured \in BOOLEAN, k \in TrainingEnds, w \in AttentionNimg :
          manager = NewAttention(configured, alpha_map[k], w)
    /\ trainer = [cur_nimg |-> 0, stats |-> [gamma |-> MinusOne]]
    /\ factory = None
    /\ num_data_workers = 0
    /\ batch = None
    /\ last = NoCallback
    /\ NoPlugins
    /\ raised = ""

\* The sample counts explored: around the start and the end of the fade-in.
GammaInputs ==
    {n \in {b + o : b \in {0, manager.start_gamma, manager.end_gamma,
                           manager.attention_transition_nimg,
                           manager.start_gamma + manager.attention_transition_nimg \div 2},
                    o \in Offsets} : n >= 0}

\* Mutant: the ratio as it is.
Clamp_none(n, d) == Frac(n, d)

\* clamp(n / d, 0, 1) for d > 0
Clamp(n, d) == IF n < 0 THEN Zero ELSE IF n > d THEN One ELSE Frac(n, d)

\* The numerator and the denominator of the ratio gamma is clamped from.
GammaRatio(cur_nimg) ==
    IF disable_progression
    THEN <<cur_nimg, manager.attention_transition_nimg>>
    ELSE <<cur_nimg - manager.start_gamma, manager.end_gamma - manager.start_gamma>>

\* The gamma block of iteration(), called with trainer.cur_nimg = cur_nimg in
\* a run whose sample count does not decrease.
SetGamma(cur_nimg) ==
    LET r == GammaRatio(cur_nimg)
        gamma == Clamp(r[1], r[2])
    IN  /\ pc = "gamma"
        /\ cur_nimg >= trainer.cur_nimg
        /\ IF ~manager.attention
           THEN /\ trainer' = [trainer EXCEPT !.cur_nimg = cur_nimg]
                /\ UNCHANGED <<generator, discriminator, raised, pc>>
           ELSE IF r[2] = 0
           THEN /\ trainer' = [trainer EXCEPT !.cur_nimg = cur_nimg]
                /\ raised' = "ZeroDivisionError"
                /\ pc' = "exit"
                /\ UNCHANGED <<generator, discriminator>>
           ELSE /\ trainer' = [cur_nimg |-> cur_nimg, stats |-> [gamma |-> gamma]]
                /\ generator' = [generator EXCEPT !.gamma = gamma]
                /\ discriminator' = [discriminator EXCEPT !.gamma = gamma]
                /\ UNCHANGED <<raised, pc>>
        /\ UNCHANGED <<config, calls, dataset, manager, factory, num_data_workers,
                       batch, last, plugins>>

NextGamma == \E cur_nimg \in GammaInputs : SetGamma(cur_nimg)

SpecGamma == InitGamma /\ [][NextGamma]_vars

\* gamma is the value the claim gives for the sample count cur_nimg: 0 up to
\* the start of the fade-in, 1 from its end on, the fraction of the fade-in
\* passed in between.
GammaAsClaimed(gamma, cur_nimg) ==
    LET start == IF disable_progression THEN 0 ELSE manager.start_gamma
        length == manager.attention_transition_nimg
    IN  /\ cur_nimg <= start => gamma = Zero
        /\ cur_nimg >= start + length => gamma = One
        /\ (start < cur_nimg /\ cur_nimg < start + length) =>
               /\ FracLess(Zero, gamma) /\ FracLess(gamma, One)
               /\ gamma = Frac(cur_nimg - start, length)

\* A call of iteration() with the gamma sub-schedule configured has left
\* gamma recomputed, propagated and recorded, at least the gamma of before.
GammaRecomputed ==
    /\ raised' = ""
    /\ GammaAsClaimed(trainer'.stats.gamma, trainer'.cur_nimg)
    /\ generator'.gamma = trainer'.stats.gamma
    /\ discriminator'.gamma = trainer'.stats.gamma
    /\ ~FracLess(trainer'.stats.gamma, Zero)
    /\ ~FracLess(One, trainer'.stats.gamma)
    /\ trainer.stats.gamma # MinusOne => ~FracLess(trainer'.stats.gamma, trainer.stats.gamma)

----------------------------------------------------------------------------
\* depth + alpha, as a rational.
Progress(depth, alpha) == <<depth * alpha[2] + alpha[1], alpha[2]>>

\* calc_progress gives no smaller depth + alpha for the larger of two counts.
ProgressNeverFalls(inputs) ==
    \A n1, n2 \in inputs :
        n1 < n2 =>
            LET r1 == calc_progress(n1)
                r2 == calc_progress(n2)
            IN  /\ r1.raised = "" /\ r2.raised = ""
                /\ ~FracLess(Progress(r2.depth, r2.alpha), Progress(r1.depth, r1.alpha))

(* C25: for a strictly increasing boundary table, calc_progress gives       *)
(* depth_1 + alpha_1 <= depth_2 + alpha_2 whenever cur_nimg_1 < cur_nimg_2, *)
(* and along a run whose cur_nimg does not decrease the depth + alpha that  *)
(* successive calls of iteration() apply does not decrease.                 *)
(* The pairs of counts are compared on the table of every run, when a run   *)
(* that starts from cur_nimg = 0 is registered.                             *)
C25_ProgressNeverFalls ==
    [][StrictlyIncreasing(alpha_map') =>
          /\ (RegisterStep /\ trainer.cur_nimg = 0) => ProgressNeverFalls(NimgInputs)
          /\ (IterationStep /\ manager.depth # -1) =>
                 /\ trainer'.stats.depth = manager'.depth
                 /\ trainer'.stats.alpha = manager'.alpha
                 /\ ~FracLess(Progress(manager'.depth, manager'.alpha),
                              Progress(manager.depth, manager.alpha))]_vars

C25_Witness ==
    /\ StrictlyIncreasing(alpha_map)
    /\ Len(alpha_map) >= 4
    /\ last.callback = "iteration"
    /\ last.depth_changed
    /\ manager.depth = depth_offset + 2
    /\ FracLess(manager.alpha, One)
    /\ trainer.cur_nimg = alpha_map[3] + 1

(* C26: the optimizer reset is suppressed only by the is_resuming that the  *)
(* call hands over, as register() does for a trainer that has optimizers:   *)
(* on a call of iteration() that changes the depth, optimizers and          *)
(* schedulers are replaced if and only if reset_optimizer is true and the   *)
(* first positional argument of that call is falsy, also in a run that was  *)
(* registered with existing optimizers.                                     *)
C26_ResetIffEnabledAndNotResuming ==
    [][((RegisterStep \/ IterationStep) /\ DueDepth # manager.depth) =>
          LET replaced == manager.reset_optimizer /\ ~last'.is_resuming
          IN  /\ replaced <=> Optimizers(trainer') # Optimizers(trainer)
              /\ replaced <=> factory'.get_optimizer = factory.get_optimizer + 1
              /\ replaced =>
                     /\ trainer'.optimizer_g.call = factory'.get_optimizer
                     /\ trainer'.optimizer_d.call = factory'.get_optimizer
                     /\ trainer'.lr_scheduler_g.call = factory'.get_optimizer
                     /\ trainer'.lr_scheduler_d.call = factory'.get_optimizer
              /\ RegisterStep => (last'.is_resuming <=> trainer.optimizer_d # None)]_vars

C26_Witness ==
    /\ last.callback = "iteration"
    /\ ~last.is_resuming
    /\ last.depth_changed
    /\ manager.reset_optimizer
    /\ factory.create_dataloader_fun = 2
    /\ factory.get_optimizer = 1
    /\ trainer.optimizer_d.call = 1

----------------------------------------------------------------------------
(* C27: a check of EfficientLossMonitor.epoch with an index of at most      *)
(* monitor_warmup never raises the threshold error and leaves the count of  *)
(* exceedances as it was, whatever the loss; in every state that the        *)
(* threshold error has not aborted, 0 <= counter <= monitor_patience.       *)
C27_WarmupChecksNothing ==
    [][/\ (monitor'.idx = monitor.idx + 1 /\ monitor'.idx <= MonitorWarmup) =>
              /\ raised' # ThresholdError
              /\ pc' = "run"
              /\ monitor'.counter = monitor.counter
       /\ raised' # ThresholdError =>
              /\ 0 <= monitor'.counter
              /\ monitor'.counter <= MonitorPatience]_vars

C27_Witness ==
    /\ monitor.idx = MonitorWarmup
    /\ monitor.idx > 0
    /\ monitor.epoch_mean = <<11, 1>>
    /\ monitor.counter = 0
    /\ raised = ""
    /\ pc = "run"

----------------------------------------------------------------------------
(* FidCalculator.epoch and NDBScore.epoch: on a snapshot epoch each         *)
(* collects generated samples, batch by batch, in a loop `while i <         *)
(* self.num_samples`.                                                       *)

\* self.num_samples, scaled down.
NumSamples == 3

\* The sizes of the batches the latent sampler and the generator return.
BatchSizes == {1, 2, 3}

\* No more than this many generated samples are told apart.
ManySamples == 2 * NumSamples

\* The locals of the loop that runs, the samples generated in it, and for
\* each plugin the last epoch_index handed to it and stats[...]['epoch'].
NewMetrics ==
    [i |-> 0, generated |-> 0,
     fid_epoch_index |-> 0, fid_stats_epoch |-> 0,
     ndb_epoch_index |-> 0, ndb_stats_epoch |-> 0]

InitMetrics ==
    /\ depth_offset = 0
    /\ max_depth = 0
    /\ disable_progression = FALSE
    /\ lod_training_kimg = <<1, 1>>
    /\ lod_transition_kimg = <<1, 2>>
    /\ training_kimg_override = ClassOverride
    /\ transition_kimg_override = ClassOverride
    /\ alpha_map = <<>>
    /\ calls = <<>>
    /\ pc = "run"
    /\ NoTraining
    /\ monitor = None
    /\ plugin_io = None
    /\ metrics = NewMetrics
    /\ output_generator = None
    /\ checkpoints = None
    /\ raised = ""

\* FidCalculator.epoch(epoch_index) up to its while loop: the statistics of
\* the real data are taken in a for loop over the dataloader.
FidEpoch ==
    LET epoch_index == metrics.fid_epoch_index + 1
    IN  /\ pc = "run"
        /\ epoch_index <= MaxEpochs
        /\ metrics' = [metrics EXCEPT !.fid_epoch_index = epoch_index,
                                      !.i = 0, !.generated = 0]
        /\ pc' = IF IsSnapshotEpoch(epoch_index) THEN "FidCalculator.while" ELSE pc
        /\ UNCHANGED <<config, calls, generator, discriminator, dataset, manager, trainer,
                       factory, num_data_workers, batch, last, monitor, plugin_io,
                       output_generator, checkpoints, raised>>

\* One test of `while i < self.num_samples` in FidCalculator.epoch and, when
\* it holds, the body: a batch of batch_size samples is generated and its
\* features are appended; i is not assigned in the body.  When the test
\* fails the scores are computed and stats['FID']['epoch'] is set.
FidWhile(batch_size) ==
    /\ pc = "FidCalculator.while"
    /\ IF metrics.i < NumSamples
       THEN /\ metrics' = [metrics EXCEPT
                              !.generated = Min(@ + batch_size, ManySamples)]
            /\ pc' = pc
       ELSE /\ metrics' = [metrics EXCEPT !.fid_stats_epoch = metrics.fid_epoch_index]
            /\ pc' = "run"
    /\ UNCHANGED <<config, calls, generator, discriminator, dataset, manager, trainer,
                   factory, num_data_workers, batch, last, monitor, plugin_io,
                   output_generator, checkpoints, raised>>

\* NDBScore.epoch(epoch_index) up to its while loop.
NdbEpoch ==
    LET epoch_index == metrics.ndb_epoch_index + 1
    IN  /\ pc = "run"
        /\ epoch_index <= MaxEpochs
        /\ metrics' = [metrics EXCEPT !.ndb_epoch_index = epoch_index,
                                      !.i = 0, !.generated = 0]
        /\ pc' = IF IsSnapshotEpoch(epoch_index) THEN "NDBScore.while" ELSE pc
        /\ UNCHANGED <<config, calls, generator, discriminator, dataset, manager, trainer,
                       factory, num_data_workers, batch, last, monitor, plugin_io,
                       output_generator, checkpoints, raised>>

\* One test of `while i < self.num_samples` in NDBScore.epoch and, when it
\* holds, the body, with `i += x.size(0)`.
NdbWhile(batch_size) ==
    /\ pc = "NDBScore.while"
    /\ IF metrics.i < NumSamples
       THEN /\ metrics' = [metrics EXCEPT
                              !.i = @ + batch_size,
                              !.generated = Min(@ + batch_size, ManySamples)]
            /\ pc' = pc
       ELSE /\ metrics' = [metrics EXCEPT !.ndb_stats_epoch = metrics.ndb_epoch_index]
            /\ pc' = "run"
    /\ UNCHANGED <<config, calls, generator, discriminator, dataset, manager, trainer,
                   factory, num_data_workers, batch, last, monitor, plugin_io,
                   output_generator, checkpoints, raised>>

NextMetrics ==
    \/ FidEpoch
    \/ \E batch_size \in BatchSizes : FidWhile(batch_size)
    \/ NdbEpoch
    \/ \E batch_size \in BatchSizes : NdbWhile(batch_size)

SpecMetrics == InitMetrics /\ [][NextMetrics]_vars

(* C28: FidCalculator.epoch terminates on every snapshot epoch: given       *)
(* non-empty batches, its sample-collecting loop ends once at least         *)
(* num_samples samples have been generated.                                 *)
C28_FidLoopEndsWhenEnough ==
    [][(pc = "FidCalculator.while" /\ metrics.generated >= NumSamples) =>
           /\ pc' = "run"
           /\ metrics'.generated = metrics.generated
           /\ metrics'.fid_stats_epoch = metrics.fid_epoch_index]_vars

----------------------------------------------------------------------------
(* The plugins that write into the checkpoints directory, SaverPlugin and   *)
(* OutputGenerator, in a run whose ticks change the generator's parameters  *)
(* and raise cur_nimg.                                                      *)

\* The samples of a tick: half a kimg, so that two ticks share a snapshot tag.
TickNimg == NimgPerKimg \div 2

InitCheckpoints ==
    /\ depth_offset = 0
    /\ max_depth = 0
    /\ disable_progression = FALSE
    /\ lod_training_kimg = <<1, 1>>
    /\ lod_transition_kimg = <<1, 2>>
    /\ training_kimg_override = ClassOverride
    /\ transition_kimg_override = ClassOverride
    /\ alpha_map = <<>>
    /\ calls = <<>>
    /\ pc = "run"
    /\ InitSnapshots(BOOLEAN)
    /\ monitor = None
    /\ plugin_io = NoPluginCall
    /\ metrics = None
    /\ raised = ""

\* The training steps of a tick: cur_nimg grows and the generator's
\* parameters change.
TrainTick(params) ==
    /\ pc = "run"
    /\ trainer.cur_nimg < MaxTicks * TickNimg
    /\ params # generator.params
    /\ trainer' = [trainer EXCEPT !.cur_nimg = @ + TickNimg]
    /\ generator' = [generator EXCEPT !.params = params]
    /\ UNCHANGED <<config, calls, pc, discriminator, dataset, manager, factory,
                   num_data_workers, batch, last, plugins, raised>>

NextCheckpoints ==
    \/ \E params \in ParamValues : TrainTick(params)
    \/ \E fault \in SaverFaults : SaverEpoch(fault)
    \/ \E fault \in SaverFaults : SaverEnd(fault)
    \/ \E fault \in OutputFaults : OutputGeneratorEpoch(fault)

SpecCheckpoints == InitCheckpoints /\ [][NextCheckpoints]_vars

\* A step of OutputGenerator.epoch, and one of SaverPlugin.epoch or end.
OutputGeneratorStep == output_generator'.epoch_index = output_generator.epoch_index + 1
SaverStep ==
    /\ plugin_io'.callback \in {"SaverPlugin.epoch", "SaverPlugin.end"}
    /\ UNCHANGED <<trainer, output_generator, monitor>>

(* C29: OutputGenerator.epoch leaves the parameters of the training         *)
(* generator as they were: on a snapshot epoch the averaged parameters are  *)
(* loaded only while the snapshot is saved and the samples are drawn, and   *)
(* the original ones are back afterwards; on any other epoch the generator  *)
(* is not written; only my_g_clone is updated.                              *)
C29_GeneratorUnchanged ==
    [][OutputGeneratorStep =>
          /\ generator'.params = generator.params
          /\ output_generator'.my_g_clone =
                 RunningAverage(output_generator.my_g_clone, generator.params)]_vars

\* The files named 'network-snapshot-<name>-<tag>.dat', whatever the name.
Snapshots(files) ==
    {f \in files : \E name \in {"generator", "discriminator", "smooth_generator"} :
                       f.path = SnapshotPath(name, f.path.tag)}

(* C30: with keep_old_checkpoints false, after every completed              *)
(* SaverPlugin.epoch (end() included) the files that match                  *)
(* 'network-snapshot-*-*.dat' are exactly one generator and one             *)
(* discriminator snapshot, both recording the same cur_nimg, and every file *)
(* that matched before, older snapshots and smooth_generator snapshots      *)
(* alike, is deleted; with keep_old_checkpoints true no file is deleted,    *)
(* and a snapshot is only overwritten by a save with the same               *)
(* cur_nimg // 1000.                                                        *)
C30_SnapshotsOfTheDirectory ==
    [][(SaverStep /\ ~plugin_io'.io_error) =>
          LET before == checkpoints.files
              after == checkpoints'.files
              cur_nimg == trainer.cur_nimg
              saved == {f \in after :
                           /\ f.path.name \in {"generator", "discriminator"}
                           /\ f.path = SnapshotPath(f.path.name, cur_nimg \div 1000)
                           /\ f.cur_nimg = cur_nimg}
          IN  /\ Cardinality(saved) = 2
              /\ \A f \in before \ Snapshots(before) : f \in after
              /\ IF ~checkpoints.keep_old_checkpoints
                 THEN /\ Snapshots(after) = saved
                      /\ \A f \in Snapshots(before) : f \in after => f \in saved
                 ELSE \A f \in before :
                          \E g \in after :
                              /\ g.path = f.path
                              /\ g # f =>
                                     /\ g \in saved
                                     /\ f.cur_nimg \div 1000 = cur_nimg \div 1000]_vars

C30_Witness ==
    /\ plugin_io.callback = "SaverPlugin.epoch"
    /\ ~plugin_io.io_error
    /\ pc = "run"
    /\ ~checkpoints.keep_old_checkpoints
    /\ trainer.cur_nimg = 2 * TickNimg
    /\ output_generator.epoch_index = OutputSnapshotTicks
    /\ \E f \in checkpoints.files : f.path = ImagePath(OutputSnapshotTicks) /\ f.cur_nimg < trainer.cur_nimg
    /\ Cardinality(Snapshots(checkpoints.files)) = 2
    /\ \A f \in Snapshots(checkpoints.files) :
           f.path.tag = 1 /\ f.path.name # "smooth_generator"

====
